---- MODULE Spec2Model ----
(***************************************************************************)
(* SolView: the wallet screen (src/App.tsx), the token detail screen       *)
(* (src/app/token/[mint].tsx) and the pure helpers they call.              *)
(*                                                                         *)
(* JavaScript values are tagged records, so that values of different       *)
(* JavaScript types can be compared: undefined, null, numbers, strings     *)
(* held in records, arrays (a TLA+ sequence in the field items) and        *)
(* objects.  Text is a sequence of one-character strings where the code    *)
(* looks inside it (trim), and a TLA+ string where it only builds it.      *)
(***************************************************************************)
EXTENDS Integers, Sequences, FiniteSets, TLC

(* ------------------------------ bounds --------------------------------- *)
\* longest text typed into the address field
MaxAddrLen == 2
\* runs of fetchTokenData that reach their fetch
MaxFetches == 2
\* longest pair list the market API answers with, and the largest liquidity
MaxPairs == 3
MaxLiquidity == 2
\* longest token-account list the endpoint answers with, and the largest
\* UI amount
MaxAccounts == 3
MaxAmount == 2
\* calls of rpc on their own
MaxCalls == 2
\* elapsed seconds from -1 up to here are all tried, then chosen ones
MaxDense == 61
\* presses of the Search button in one run
MaxPresses == 2

VARIABLES
    \* wallet screen, src/App.tsx 79-83
    address, loading, balance, tokens, txns,
    \* the last Alert.alert shown, the presses of Search so far, the fetch
    \* requests sent so far, and the search whose Promise.all is the latest
    alert, presses, requests, task,
    \* token screen, src/app/token/[mint].tsx 49-53: the route parameter and
    \* the three state cells; mounted says that the effect has run at least
    \* once, fetches holds every run of fetchTokenData that reached its fetch
    mint, tokenData, tokenLoading, error, mounted, fetches,
    \* calls of the helpers taken on their own: what each was given and what
    \* it came to
    calls

walletVars == <<address, loading, balance, tokens, txns, alert, presses, requests, task>>
tokenVars == <<mint, tokenData, tokenLoading, error, mounted, fetches>>
vars == <<walletVars, tokenVars, calls>>

(* --------------------------- JavaScript values ------------------------- *)
Undefined == [t |-> "undefined"]
Null == [t |-> "null"]
Num(n) == [t |-> "number", v |-> n]
Str(s) == [t |-> "string", v |-> s]
Arr(s) == [t |-> "array", items |-> s]
\* a / b on numbers, kept exact as the pair of its operands
Quot(a, b) == [t |-> "number", num |-> a, den |-> b]

\* what a JavaScript condition makes of a value: if (v), !v, v || d
Truthy(v) ==
    CASE v.t = "undefined" -> FALSE
      [] v.t = "null" -> FALSE
      [] v.t = "number" /\ "v" \in DOMAIN v -> v.v /= 0
      [] v.t = "string" -> v.v /= ""
      [] OTHER -> TRUE

\* optional chaining stops at undefined and null only
Nullish(v) == v.t \in {"undefined", "null"}

\* the outcome of an async function: it returns a value or throws an Error
Return(v) == [kind |-> "return", val |-> v, err |-> ""]
Throw(m) == [kind |-> "throw", val |-> Undefined, err |-> m]

(* ------------------------------- text ---------------------------------- *)
Whitespace == {" "}
Chars == {" ", "a"}

RECURSIVE TrimStart(_)
TrimStart(s) ==
    IF s /= <<>> /\ Head(s) \in Whitespace THEN TrimStart(Tail(s)) ELSE s

RECURSIVE TrimEnd(_)
TrimEnd(s) ==
    IF s /= <<>> /\ s[Len(s)] \in Whitespace
    THEN TrimEnd(SubSeq(s, 1, Len(s) - 1))
    ELSE s

\* a search that takes the text as typed
trimNothing(s) == s

\* String.prototype.trim as search calls it
trim(s) == TrimEnd(TrimStart(s))

Texts == UNION {[1..n -> Chars] : n \in 0..MaxAddrLen}

\* the address tryExample fills in: 44 base58 characters, none of them
\* whitespace; kept here by its first two
example == <<"8", "6">>

(* ------------------------------- rpc ----------------------------------- *)
\* What the endpoint can answer to one fetch: no answer at all (fetch
\* rejects), a body that is not JSON (res.json rejects), or a JSON-RPC 2.0
\* response object, whose error member is absent or an error object with a
\* message and whose result member is absent or a value.
NetFail == [kind |-> "netfail"]
Malformed == [kind |-> "malformed"]
Json(e, r) == [kind |-> "json", error |-> e, result |-> r]
ErrObj(m) == [t |-> "object", message |-> m]

NetworkFailedMsg == "Network request failed"
JsonParseMsg == "JSON Parse error"

\* rpc after its one fetch has been answered by resp
rpc(resp) ==
    CASE resp.kind = "netfail" -> Throw(NetworkFailedMsg)
      [] resp.kind = "malformed" -> Throw(JsonParseMsg)
      [] OTHER ->
           IF Truthy(resp.error)
           THEN Throw(resp.error.message)
           ELSE Return(resp.result)

TypeErrorMsg == "TypeError: undefined is not an object"
LAMPORTS_PER_SOL == 1000000000

\* getBalance, given what its rpc call came to
getBalance(r) ==
    IF r.kind = "throw" THEN r
    ELSE IF r.val.t \in {"undefined", "null"} THEN Throw(TypeErrorMsg)
    ELSE Return(Quot(r.val.value.v, LAMPORTS_PER_SOL))

\* a filter that keeps the empty accounts
GreaterOrEqualZero(v) == v.t = "null" \/ v.v >= 0

\* a.account.data.parsed.info.tokenAmount.uiAmount > 0, for a number or null
GreaterThanZero(v) == v.t = "number" /\ v.v > 0

\* the map and the filter of getTokens over the account list
TokenList(accounts) ==
    LET mapped == [i \in 1..Len(accounts) |->
                      [mint |-> accounts[i].mint, amount |-> accounts[i].uiAmount]]
    IN  SelectSeq(mapped, LAMBDA tk : GreaterThanZero(tk.amount))

\* getTokens, given what its rpc call came to
getTokens(r) ==
    IF r.kind = "throw" THEN r
    ELSE IF r.val.t \in {"undefined", "null"} THEN Throw(TypeErrorMsg)
    ELSE Return(Arr(TokenList(IF Truthy(r.val.value) THEN r.val.value.items ELSE <<>>)))

\* getTxns, given what its rpc call came to
getTxns(r) ==
    IF r.kind = "throw" THEN r
    ELSE IF r.val.t \in {"undefined", "null"} THEN Throw(TypeErrorMsg)
    ELSE Return(Arr([i \in 1..Len(r.val.items) |->
                       [sig |-> r.val.items[i].signature,
                        time |-> r.val.items[i].blockTime,
                        ok |-> ~Truthy(r.val.items[i].err)]]))

(* --------------------------- wallet screen ----------------------------- *)
\* the three sub-queries, by their place in the array given to Promise.all
QBalance == 1
QTokens == 2
QTxns == 3
Queries == {QBalance, QTokens, QTxns}

\* sub-query i, given what its rpc call came to
SubQuery(i, r) ==
    CASE i = QBalance -> getBalance(r)
      [] i = QTokens -> getTokens(r)
      [] OTHER -> getTxns(r)

\* one sub-query: its fetch is out ("inflight"), will never be answered
\* ("hung"), or it has settled; sent counts the fetch requests it made
NoQuery == [st |-> "none", sent |-> 0, val |-> Undefined, err |-> ""]
Issued == [st |-> "inflight", sent |-> 1, val |-> Undefined, err |-> ""]

Settled(out) ==
    [st |-> IF out.kind = "return" THEN "fulfilled" ELSE "rejected",
     sent |-> 1, val |-> out.val, err |-> out.err]

\* the promise Promise.all returns: pending until every element fulfilled
\* or one rejected; values are kept by the element's index
PendingAll ==
    [state |-> "pending", values |-> [i \in Queries |-> Undefined],
     remaining |-> 3, reason |-> ""]

\* a join that files each value under the place of its arrival
PromiseAllFulfilByArrival(join, i, v) ==
    IF join.state /= "pending" THEN join
    ELSE [join EXCEPT !.values[4 - join.remaining] = v,
                      !.remaining = @ - 1,
                      !.state = IF join.remaining = 1 THEN "fulfilled" ELSE @]

\* a join that fulfils one element short
PromiseAllFulfilEarly(join, i, v) ==
    IF join.state /= "pending" THEN join
    ELSE [join EXCEPT !.values[i] = v,
                      !.remaining = @ - 1,
                      !.state = IF join.remaining <= 2 THEN "fulfilled" ELSE @]

PromiseAllFulfil(join, i, v) ==
    IF join.state /= "pending" THEN join
    ELSE [join EXCEPT !.values[i] = v,
                      !.remaining = @ - 1,
                      !.state = IF join.remaining = 1 THEN "fulfilled" ELSE @]

PromiseAllReject(join, m) ==
    IF join.state /= "pending" THEN join
    ELSE [join EXCEPT !.state = "rejected", !.reason = m]

PromiseAllSettle(join, i, out) ==
    IF out.kind = "return"
    THEN PromiseAllFulfil(join, i, out.val)
    ELSE PromiseAllReject(join, out.err)

Snapshot == [balance |-> balance, tokens |-> tokens, txns |-> txns]

NoTask ==
    [phase |-> "none", addr |-> <<>>, q |-> [i \in Queries |-> NoQuery],
     join |-> PendingAll, order |-> <<>>,
     pre |-> [balance |-> Null, tokens |-> Arr(<<>>), txns |-> Arr(<<>>)]]

WalletInit ==
    /\ address = <<>>
    /\ loading = FALSE
    /\ balance = Null
    /\ tokens = Arr(<<>>)
    /\ txns = Arr(<<>>)
    /\ alert = ""
    /\ presses = 0
    /\ requests = 0
    /\ task = NoTask

\* onChangeText={setAddress}
setAddress(text) ==
    /\ address' = text
    /\ UNCHANGED <<loading, balance, tokens, txns, alert, presses, requests, task>>
    /\ UNCHANGED <<tokenVars, calls>>

tryExample ==
    /\ address' = example
    /\ UNCHANGED <<loading, balance, tokens, txns, alert, presses, requests, task>>
    /\ UNCHANGED <<tokenVars, calls>>

\* a Search button that stays enabled while loading
searchWhileLoading ==
    /\ presses < MaxPresses
    /\ presses' = presses + 1
    /\ LET addr == trim(address)
       IN  IF addr = <<>>
           THEN /\ alert' = "Enter a wallet address"
                /\ UNCHANGED <<loading, requests, task>>
           ELSE /\ loading' = TRUE
                /\ requests' = requests + 3
                /\ task' = [phase |-> "waiting", addr |-> addr,
                            q |-> [i \in Queries |-> Issued],
                            join |-> PendingAll, order |-> <<>>,
                            pre |-> Snapshot]
                /\ UNCHANGED alert
    /\ UNCHANGED <<address, balance, tokens, txns>>
    /\ UNCHANGED <<tokenVars, calls>>

\* search up to its await: the button is disabled while loading
search ==
    /\ ~loading
    /\ presses < MaxPresses
    /\ presses' = presses + 1
    /\ LET addr == trim(address)
       IN  IF addr = <<>>
           THEN /\ alert' = "Enter a wallet address"
                /\ UNCHANGED <<loading, requests, task>>
           ELSE /\ loading' = TRUE
                /\ requests' = requests + 3
                /\ task' = [phase |-> "waiting", addr |-> addr,
                            q |-> [i \in Queries |-> Issued],
                            join |-> PendingAll, order |-> <<>>,
                            pre |-> Snapshot]
                /\ UNCHANGED alert
    /\ UNCHANGED <<address, balance, tokens, txns>>
    /\ UNCHANGED <<tokenVars, calls>>

\* a search that keeps what did arrive when the join rejects
searchResumePartial(join) ==
    /\ balance' = IF join.values[QBalance] /= Undefined
                  THEN join.values[QBalance] ELSE balance
    /\ tokens' = IF join.values[QTokens] /= Undefined
                 THEN join.values[QTokens] ELSE tokens
    /\ txns' = IF join.values[QTxns] /= Undefined
               THEN join.values[QTxns] ELSE txns
    /\ loading' = FALSE
    /\ IF join.state = "fulfilled" THEN UNCHANGED alert ELSE alert' = join.reason

\* search after its await, when Promise.all has settled as join
searchResume(join) ==
    IF join.state = "fulfilled"
    THEN /\ balance' = join.values[QBalance]
         /\ tokens' = join.values[QTokens]
         /\ txns' = join.values[QTxns]
         /\ loading' = FALSE
         /\ UNCHANGED alert
    ELSE /\ alert' = join.reason
         /\ loading' = FALSE
         /\ UNCHANGED <<balance, tokens, txns>>

\* the endpoint answers the fetch of sub-query i: rpc and the sub-query
\* finish, Promise.all takes the outcome and, once it settles, search goes on
Respond(i, resp) ==
    /\ task.q[i].st = "inflight"
    /\ LET out == SubQuery(i, rpc(resp))
           join == PromiseAllSettle(task.join, i, out)
       IN  /\ task' = [task EXCEPT !.q[i] = Settled(out),
                                   !.join = join,
                                   !.order = Append(@, i),
                                   !.phase = IF join.state = "pending"
                                             THEN "waiting" ELSE "done"]
           /\ IF task.join.state = "pending" /\ join.state /= "pending"
              THEN searchResume(join)
              ELSE UNCHANGED <<loading, balance, tokens, txns, alert>>
    /\ UNCHANGED <<address, presses, requests>>
    /\ UNCHANGED <<tokenVars, calls>>

\* the fetch of sub-query i of the pending search is never answered
Hang(i) ==
    /\ task.join.state = "pending"
    /\ task.q[i].st = "inflight"
    /\ task' = [task EXCEPT !.q[i].st = "hung"]
    /\ UNCHANGED <<address, loading, balance, tokens, txns, alert, presses, requests>>
    /\ UNCHANGED <<tokenVars, calls>>

\* the answers the endpoint gives in the wallet runs
RpcErrorMsg == "Invalid param: Invalid"
Account(m, a) == [mint |-> m, uiAmount |-> a]
Signature(sg, bt, e) == [signature |-> sg, blockTime |-> bt, err |-> e]

WalletResults(i) ==
    CASE i = QBalance ->
           {[t |-> "object", value |-> Num(0)],
            [t |-> "object", value |-> Num(1500000000)]}
      [] i = QTokens ->
           {[t |-> "object", value |-> Arr(<<>>)],
            [t |-> "object",
             value |-> Arr(<<Account("m1", Num(0)), Account("m2", Num(2))>>)]}
      [] OTHER ->
           {Arr(<<>>),
            Arr(<<Signature("s1", Num(1700000000), Null)>>)}

WalletResponses(i) ==
    {NetFail, Json(ErrObj(RpcErrorMsg), Undefined)}
        \cup {Json(Undefined, r) : r \in WalletResults(i)}

\* the screen as useState leaves it, shown for no mint
TokenIdle ==
    /\ mint = Undefined
    /\ tokenData = Null
    /\ tokenLoading = TRUE
    /\ error = Null
    /\ mounted = FALSE
    /\ fetches = <<>>

(* ------------------------- wallet screen: claims ----------------------- *)
Blank(s) == \A k \in 1..Len(s) : s[k] \in Whitespace
AllFulfilled == \A i \in Queries : task.q[i].st = "fulfilled"
SomeRejected == \E i \in Queries : task.q[i].st = "rejected"
SomeHung == \E i \in Queries : task.q[i].st = "hung"
OwnValues ==
    [balance |-> task.q[QBalance].val, tokens |-> task.q[QTokens].val,
     txns |-> task.q[QTxns].val]

\* C1: a search one of whose sub-queries rejected has ended in an error (its
\* join rejected with the message of a rejected sub-query, that message was
\* alerted and no alert but the validation message has replaced it, loading
\* is false) and balance, tokens and txns are what they were when it
\* started; the three differ from what they were at its start only when all
\* three sub-queries fulfilled, and then each is the value of its own
\* sub-query.
C1_AtomicFetch ==
    /\ SomeRejected =>
          /\ task.phase = "done"
          /\ task.join.state = "rejected"
          /\ \E i \in Queries :
                task.q[i].st = "rejected" /\ task.q[i].err = task.join.reason
          /\ alert \in {task.join.reason, "Enter a wallet address"}
          /\ ~loading
          /\ Snapshot = task.pre
    /\ Snapshot /= task.pre => AllFulfilled /\ Snapshot = OwnValues

\* a search that failed on getTokens although getBalance had already brought
\* a new balance and getTxns answered after the failure
C1_Witness ==
    /\ task.phase = "done"
    /\ task.q[QTokens].st = "rejected"
    /\ task.q[QBalance].st = "fulfilled"
    /\ task.q[QBalance].val /= task.pre.balance
    /\ task.q[QTxns].st = "fulfilled"
    /\ task.order = <<QBalance, QTokens, QTxns>>

\* C4: a press of Search while the typed address is empty or all whitespace
\* shows the validation message and sends no request, leaves loading false
\* and starts no search; balance, tokens and txns stay as they were.
C4_BlankAddress ==
    [][(presses' /= presses /\ Blank(address)) =>
          /\ alert' = "Enter a wallet address"
          /\ requests' = requests
          /\ ~loading /\ ~loading'
          /\ task' = task
          /\ Snapshot' = Snapshot]_vars

\* Search was pressed once on an address of two spaces
C4_Witness ==
    /\ address = <<" ", " ">>
    /\ presses = 1
    /\ alert = "Enter a wallet address"
    /\ requests = 0

\* C9: a started search has sent all three requests, whatever has been
\* answered so far, and once its join fulfilled balance, tokens and txns
\* are the values of getBalance, getTokens and getTxns, in that order.
C9_OrderIrrelevant ==
    /\ task.phase /= "none" => \A i \in Queries : task.q[i].sent = 1
    /\ task.join.state = "fulfilled" => AllFulfilled /\ Snapshot = OwnValues

\* a search that succeeded with the answers arriving in reverse order
C9_Witness ==
    /\ task.join.state = "fulfilled"
    /\ task.order = <<QTxns, QTokens, QBalance>>
    /\ balance = Quot(1500000000, LAMPORTS_PER_SOL)
    /\ tokens.items /= <<>>
    /\ txns.items /= <<>>

\* C10, as stated: while a sub-query of the search is never answered the
\* search is not complete and loading is true.
C10_HungNeverCompletes == SomeHung => task.phase = "waiting" /\ loading

\* C10, amended: a search one of whose sub-queries is never answered never
\* fulfils, so it writes nothing; it is complete exactly when another
\* sub-query rejected, and until then loading stays true.
C10_HungBlocksSnapshot ==
    SomeHung =>
       /\ task.join.state /= "fulfilled"
       /\ Snapshot = task.pre
       /\ task.phase = "done" <=> SomeRejected
       /\ loading <=> ~SomeRejected

\* getTxns is never answered, the other two fulfilled, the search waits
C10_Witness ==
    /\ task.q[QTxns].st = "hung"
    /\ task.q[QBalance].st = "fulfilled"
    /\ task.q[QTokens].st = "fulfilled"
    /\ task.phase = "waiting"
    /\ loading

Next ==
    \/ \E text \in Texts : setAddress(text)
    \/ tryExample
    \/ search
    \/ \E i \in Queries : \E resp \in WalletResponses(i) : Respond(i, resp)
    \/ \E i \in Queries : Hang(i)

Init == WalletInit /\ TokenIdle /\ calls = <<>>

Spec == Init /\ [][Next]_vars

(* -------------------- wallet screen: claims on re-querying ------------- *)
\* what the screen shows of the wallet: the balance card when balance is
\* not null, the token and transaction lists when they are not empty
NothingShown ==
    balance = Null /\ tokens = Arr(<<>>) /\ txns = Arr(<<>>)

\* C11: once a new search has started, nothing of an earlier search is
\* shown, neither while the new search waits nor after it failed: the
\* balance card and both lists stay away until the new search has
\* delivered.
C11_SnapshotDiscarded ==
    (task.phase = "waiting" \/ task.join.state = "rejected") => NothingShown

\* C12, as stated: while a search is in flight a further submit of a
\* non-blank address is taken and sends three more requests.
C12_SecondSubmitInFlight ==
    (task.phase = "waiting" /\ ~Blank(address) /\ presses < MaxPresses) =>
        ENABLED (search /\ requests' = requests + 3)

\* C12, amended: a submit is taken only while no search is in flight (the
\* button is disabled while loading); every submit of a non-blank address
\* that is taken starts a search of its own, with three new requests,
\* whatever the address and the outcome of the search before it.
C12_SubmitStartsOwnTask ==
    /\ [](loading => ~ENABLED search)
    /\ [][(presses' /= presses /\ ~Blank(address)) =>
             /\ ~loading /\ loading'
             /\ task.phase /= "waiting"
             /\ requests' = requests + 3
             /\ task'.addr = trim(address)
             /\ task'.join = PendingAll
             /\ \A i \in Queries : task'.q[i] = Issued]_vars

\* a second search for the same address as the first, which succeeded: six
\* requests have been sent
C12_Witness ==
    /\ presses = 2
    /\ requests = 6
    /\ task.phase = "waiting"
    /\ task.addr = <<"a">>
    /\ address = <<"a">>
    /\ task.pre.balance = Quot(1500000000, LAMPORTS_PER_SOL)
    /\ \A i \in Queries : task.q[i] = Issued

\* short(s, n): the first n and the last n characters around three dots
short(s, n) ==
    SubSeq(s, 1, IF Len(s) < n THEN Len(s) ELSE n)
        \o <<".", ".", ".">>
        \o SubSeq(s, IF Len(s) < n THEN 1 ELSE Len(s) - n + 1, Len(s))

\* the address line of the balance card
shownAddress == short(trim(address), 6)

\* the step in which a search delivers its snapshot
Delivers == task.join.state = "pending" /\ task'.join.state = "fulfilled"

\* C15: the address on the balance card is the one the balance was fetched
\* for: it is the address of the search at the moment that search delivers
\* the balance and as long as that search is the latest, and while a
\* balance stays on the screen the address beside it changes only when a
\* search delivers.
C15_AddressOfBalance ==
    /\ []((balance /= Null /\ task.join.state = "fulfilled") =>
             shownAddress = short(task.addr, 6))
    /\ [][(balance /= Null /\ ~Delivers) => shownAddress' = shownAddress]_vars

(* ---------------------------- token screen ----------------------------- *)
\* What the market API can answer to one fetch: no answer (fetch rejects
\* with an Error, whose message may be empty), or a response with a status
\* and a body that is not JSON, is JSON null, or is an object whose pairs
\* member is absent, null or an array of pairs.
FetchFail(m) == [kind |-> "netfail", message |-> m]
Http(status, body) == [kind |-> "http", status |-> status, body |-> body]
NotJson(m) == [t |-> "malformed", message |-> m]
Data(pairs) == [t |-> "object", pairs |-> pairs]
Pair(a, liq) == [pairAddress |-> a, liquidity |-> liq]
Liquidity(usd) == [t |-> "object", usd |-> usd]

\* res.ok
Ok(status) == status \in 200..299

NotFoundMsg == "Token not found on DexScreener"
FailedToLoadMsg == "Failed to load token"
FailedToFetchMsg(status) == "Failed to fetch: " \o ToString(status)

\* p.liquidity?.usd || 0
LiquidityOrZero(p) ==
    IF Nullish(p.liquidity) THEN 0
    ELSE IF Truthy(p.liquidity.usd) THEN p.liquidity.usd.v
    ELSE 0

\* a callback that lets a later pair win a tie
KeepBestOnTie(best, current) ==
    IF LiquidityOrZero(current) >= LiquidityOrZero(best) THEN current ELSE best

\* the callback of the reduce
KeepBest(best, current) ==
    IF LiquidityOrZero(current) > LiquidityOrZero(best) THEN current ELSE best

RECURSIVE Reduce(_, _, _)
Reduce(list, k, best) ==
    IF k > Len(list) THEN best ELSE Reduce(list, k + 1, KeepBest(best, list[k]))

\* data.pairs.reduce(..., data.pairs[0]) on a non-empty list
bestPair(list) == Reduce(list, 1, list[1])

\* a run that reduces whatever array it got
SelectedNoLengthCheck(resp) ==
    IF resp.kind = "netfail" THEN Throw(resp.message)
    ELSE IF ~Ok(resp.status) THEN Throw(FailedToFetchMsg(resp.status))
    ELSE IF resp.body.t = "malformed" THEN Throw(resp.body.message)
    ELSE IF resp.body.t = "null" THEN Throw(TypeErrorMsg)
    ELSE IF ~Truthy(resp.body.pairs) THEN Throw(NotFoundMsg)
    ELSE IF Len(resp.body.pairs.items) = 0 THEN Return(Undefined)
    ELSE Return(bestPair(resp.body.pairs.items))

\* a run that reads the body whatever the status
SelectedNoStatusCheck(resp) ==
    IF resp.kind = "netfail" THEN Throw(resp.message)
    ELSE IF resp.body.t = "malformed" THEN Throw(resp.body.message)
    ELSE IF resp.body.t = "null" THEN Throw(TypeErrorMsg)
    ELSE IF ~Truthy(resp.body.pairs) \/ Len(resp.body.pairs.items) = 0
         THEN Throw(NotFoundMsg)
    ELSE Return(bestPair(resp.body.pairs.items))

\* fetchTokenData from the answer to its fetch up to its setTokenData or
\* its catch: the pair it selects or the Error it throws
Selected(resp) ==
    IF resp.kind = "netfail" THEN Throw(resp.message)
    ELSE IF ~Ok(resp.status) THEN Throw(FailedToFetchMsg(resp.status))
    ELSE IF resp.body.t = "malformed" THEN Throw(resp.body.message)
    ELSE IF resp.body.t = "null" THEN Throw(TypeErrorMsg)
    ELSE IF ~Truthy(resp.body.pairs) \/ Len(resp.body.pairs.items) = 0
         THEN Throw(NotFoundMsg)
    ELSE Return(bestPair(resp.body.pairs.items))

NoResponse == [kind |-> "none"]

Mints == {Undefined, Str("mintA"), Str("mintB")}

\* the screen as useState leaves it, opened on any route parameter
TokenInit ==
    /\ mint \in Mints
    /\ tokenData = Null
    /\ tokenLoading = TRUE
    /\ error = Null
    /\ mounted = FALSE
    /\ fetches = <<>>

\* fetchTokenData up to its await, in the render whose mint is m
fetchTokenData(m) ==
    IF ~Truthy(m)
    THEN UNCHANGED <<tokenData, tokenLoading, error, fetches>>
    ELSE /\ Len(fetches) < MaxFetches
         /\ tokenLoading' = TRUE
         /\ error' = Null
         /\ fetches' = Append(fetches, [mint |-> m, st |-> "inflight",
                                        resp |-> NoResponse])
         /\ UNCHANGED tokenData

\* the effect after the first render
useEffect ==
    /\ ~mounted
    /\ mounted' = TRUE
    /\ fetchTokenData(mint)
    /\ UNCHANGED mint
    /\ UNCHANGED <<walletVars, calls>>

\* the route parameter changes, the screen renders again and the effect,
\* which depends on [mint], runs again
setParams(m) ==
    /\ mounted
    /\ m /= mint
    /\ mint' = m
    /\ fetchTokenData(m)
    /\ UNCHANGED mounted
    /\ UNCHANGED <<walletVars, calls>>

\* run k of fetchTokenData from the answer to its fetch to its end
fetchSettle(k, resp) ==
    /\ fetches[k].st = "inflight"
    /\ fetches' = [fetches EXCEPT ![k].st = "done", ![k].resp = resp]
    /\ LET out == Selected(resp)
       IN  IF out.kind = "return"
           THEN /\ tokenData' = out.val
                /\ UNCHANGED error
           ELSE /\ error' = IF out.err /= "" THEN Str(out.err)
                            ELSE Str(FailedToLoadMsg)
                /\ UNCHANGED tokenData
    /\ tokenLoading' = FALSE
    /\ UNCHANGED <<mint, mounted>>
    /\ UNCHANGED <<walletVars, calls>>

\* the answers the market API gives in the token runs
PairsA ==
    <<Pair("p1", Liquidity(Num(1))), Pair("p2", Liquidity(Num(2))),
      Pair("p3", Liquidity(Num(2)))>>
PairsB == <<Pair("p4", Undefined)>>

TokenResponses ==
    {FetchFail(NetworkFailedMsg), FetchFail(""),
     Http(404, Data(Arr(PairsA))), Http(500, NotJson(JsonParseMsg)),
     Http(200, NotJson(JsonParseMsg)), Http(200, Null),
     Http(200, Data(Undefined)), Http(200, Data(Null)),
     Http(200, Data(Arr(<<>>))),
     Http(200, Data(Arr(PairsA))), Http(200, Data(Arr(PairsB)))}

TokenNext ==
    \/ useEffect
    \/ \E m \in Mints : setParams(m)
    \/ \E k \in DOMAIN fetches : \E resp \in TokenResponses : fetchSettle(k, resp)

InitToken == WalletInit /\ TokenInit /\ calls = <<>>

SpecToken == InitToken /\ [][TokenNext]_vars

(* -------------------------- token screen: claims ----------------------- *)
\* run k of fetchTokenData ends in this step
Ends(k) == fetches[k].st = "inflight" /\ fetches'[k].st = "done"

\* a response that was parsed and whose pairs are absent, null or empty
NoPairs(resp) ==
    /\ resp.kind = "http"
    /\ Ok(resp.status)
    /\ resp.body.t = "object"
    /\ \/ resp.body.pairs \in {Undefined, Null}
       \/ resp.body.pairs.t = "array" /\ resp.body.pairs.items = <<>>

\* C3: a run of fetchTokenData whose parsed response has a null, absent or
\* empty pairs list ends with error set to the token-not-found message,
\* with tokenData as it was and with loading false.
C3_NotFound ==
    [][\A k \in DOMAIN fetches :
          (Ends(k) /\ NoPairs(fetches'[k].resp)) =>
             /\ error' = Str(NotFoundMsg)
             /\ tokenData' = tokenData
             /\ ~tokenLoading']_vars

\* the run for a second mint found no pairs: the error is set and tokenData
\* still holds the pair the first run selected
C3_Witness ==
    /\ Len(fetches) = 2
    /\ fetches[1].st = "done" /\ fetches[1].resp = Http(200, Data(Arr(PairsA)))
    /\ fetches[2].st = "done" /\ fetches[2].resp = Http(200, Data(Null))
    /\ error = Str(NotFoundMsg)
    /\ tokenData = Pair("p2", Liquidity(Num(2)))

\* a response with a non-success status, or a success whose body is not JSON
BadStatus(resp) == resp.kind = "http" /\ ~Ok(resp.status)
BadBody(resp) == resp.kind = "http" /\ Ok(resp.status) /\ resp.body.t = "malformed"

\* C7: a run of fetchTokenData whose response has a non-success status ends
\* with the error "Failed to fetch: <status>" whatever its body holds, and a
\* run whose success body is not JSON ends with the parser's message (or the
\* fallback message when that is empty); either error differs from the
\* token-not-found message, tokenData stays as it was and loading is false.
C7_MarketFetchError ==
    [][\A k \in DOMAIN fetches :
          (Ends(k) /\ (BadStatus(fetches'[k].resp) \/ BadBody(fetches'[k].resp))) =>
             /\ BadStatus(fetches'[k].resp) =>
                   error' = Str(FailedToFetchMsg(fetches'[k].resp.status))
             /\ BadBody(fetches'[k].resp) =>
                   error' \in {Str(fetches'[k].resp.body.message), Str(FailedToLoadMsg)}
             /\ error' /= Str(NotFoundMsg)
             /\ Truthy(error')
             /\ tokenData' = tokenData
             /\ ~tokenLoading']_vars

\* a 404 whose body carries three pairs: the error is set, no pair selected
C7_Witness ==
    /\ Len(fetches) = 1
    /\ fetches[1].st = "done"
    /\ fetches[1].resp = Http(404, Data(Arr(PairsA)))
    /\ error = Str("Failed to fetch: 404")
    /\ tokenData = Null
    /\ ~tokenLoading

\* every run of fetchTokenData so far has returned: the effect has run, and
\* each run that reached its fetch has ended
AllReturned ==
    mounted /\ \A k \in DOMAIN fetches : fetches[k].st = "done"

\* C13: once every run of fetchTokenData has returned, whether it selected
\* a pair, failed, or found no mint to fetch, loading is false.
C13_LoadingEnds == AllReturned => ~tokenLoading

\* the latest run of fetchTokenData, which is the run for the mint shown
Latest == fetches[Len(fetches)]

\* C14: once the mint has changed during a fetch and every run has ended,
\* tokenData and error are those of the run for the latest mint: its pair
\* and no error if it selected one, its error if it failed.
C14_LatestWins ==
    (Len(fetches) >= 2 /\ AllReturned /\ Truthy(mint)) =>
        /\ Latest.mint = mint
        /\ LET out == Selected(Latest.resp)
           IN  IF out.kind = "return"
               THEN tokenData = out.val /\ error = Null
               ELSE error = Str(IF out.err /= "" THEN out.err ELSE FailedToLoadMsg)

(* ------------------------ the helpers on their own --------------------- *)
InitCalls == WalletInit /\ TokenIdle /\ calls = <<>>

(* fetchTokenData's selection, src/app/token/[mint].tsx 76-87 *)
LiquidityFields ==
    {Undefined, Liquidity(Null)} \cup {Liquidity(Num(n)) : n \in 0..MaxLiquidity}

\* pair lists of the market API; a pair's address is its place in the list
PairLists ==
    UNION {{[i \in 1..n |-> Pair(i, f[i])] : f \in [1..n -> LiquidityFields]} :
             n \in 1..MaxPairs}

\* fetchTokenData is answered 200 with the pair list
selectPair(list) ==
    /\ calls = <<>>
    /\ calls' = <<[fn |-> "fetchTokenData", arg |-> list,
                   out |-> Selected(Http(200, Data(Arr(list))))]>>
    /\ UNCHANGED <<walletVars, tokenVars>>

NextPairs == \E list \in PairLists : selectPair(list)

SpecPairs == InitCalls /\ [][NextPairs]_vars

\* liquidity in USD, a missing or null field counted as 0
Usd(p) ==
    IF p.liquidity = Undefined \/ p.liquidity.usd = Null THEN 0
    ELSE p.liquidity.usd.v

\* C2: the pair fetchTokenData selects from a non-empty list is the element
\* at some index k whose liquidity is at least that of every element and
\* greater than that of every element before k.
C2_BestPair ==
    \A c \in DOMAIN calls :
       LET list == calls[c].arg
       IN  /\ calls[c].out.kind = "return"
           /\ \E k \in 1..Len(list) :
                 /\ calls[c].out.val = list[k]
                 /\ \A j \in 1..Len(list) : Usd(list[j]) <= Usd(list[k])
                 /\ \A j \in 1..(k - 1) : Usd(list[j]) < Usd(list[k])

\* liquidities absent, 2, 2: the second pair is selected, not the third
C2_Witness ==
    /\ calls /= <<>>
    /\ calls[1].arg =
          <<Pair(1, Undefined), Pair(2, Liquidity(Num(2))), Pair(3, Liquidity(Num(2)))>>
    /\ calls[1].out = Return(Pair(2, Liquidity(Num(2))))

(* getTokens, src/App.tsx 45-57 *)
Amounts == {Null} \cup {Num(n) : n \in 0..MaxAmount}
Accounts == {Account(m, a) : m \in {"m1", "m2"}, a \in Amounts}
AccountLists == UNION {[1..n -> Accounts] : n \in 0..MaxAccounts}

\* what getTokenAccountsByOwner brings: value absent, null or a list
TokenResults ==
    {[t |-> "object", value |-> v] : v \in {Undefined, Null}}
        \cup {[t |-> "object", value |-> Arr(l)] : l \in AccountLists}

\* getTokens is called and its rpc call brings result
tokensOf(result) ==
    /\ calls = <<>>
    /\ calls' = <<[fn |-> "getTokens", arg |-> result,
                   out |-> getTokens(rpc(Json(Undefined, result)))]>>
    /\ UNCHANGED <<walletVars, tokenVars>>

NextTokens == \E result \in TokenResults : tokensOf(result)

SpecTokens == InitCalls /\ [][NextTokens]_vars

\* the places of the accounts with a UI amount above 0
Kept(list) ==
    {i \in 1..Len(list) : list[i].uiAmount /= Null /\ list[i].uiAmount.v > 0}

\* C5: getTokens returns one entry (mint, amount) for each account whose UI
\* amount is above 0 and no other, in the order of the response: the entry
\* of the account at place i stands at the place that counts the kept
\* accounts up to i; an absent, null or empty list gives the empty sequence
\* and no error.
C5_GetTokens ==
    \A c \in DOMAIN calls :
       LET list == IF calls[c].arg.value \in {Undefined, Null} THEN <<>>
                   ELSE calls[c].arg.value.items
           got == calls[c].out.val.items
       IN  /\ calls[c].out.kind = "return"
           /\ Len(got) = Cardinality(Kept(list))
           /\ \A i \in Kept(list) :
                 got[Cardinality({j \in Kept(list) : j <= i})] =
                    [mint |-> list[i].mint, amount |-> list[i].uiAmount]
           /\ list = <<>> => calls[c].out = Return(Arr(<<>>))

\* amounts 2, 0, 1 of mints m2, m1, m1: the first and the third are kept
C5_Witness ==
    /\ calls /= <<>>
    /\ calls[1].arg.value =
          Arr(<<Account("m2", Num(2)), Account("m1", Num(0)), Account("m1", Num(1))>>)
    /\ calls[1].out =
          Return(Arr(<<[mint |-> "m2", amount |-> Num(2)],
                       [mint |-> "m1", amount |-> Num(1)]>>))

\* an absent account list gives no tokens and no error
C5_WitnessAbsent ==
    /\ calls /= <<>>
    /\ calls[1].arg.value = Undefined
    /\ calls[1].out = Return(Arr(<<>>))

(* rpc, src/App.tsx 29-38 *)
Methods == {"getBalance", "getTokenAccountsByOwner", "getSignaturesForAddress"}

\* JSON-RPC 2.0 response bodies: the error member absent or an error
\* object, the result member absent or a value; and the two ways of getting
\* no body
RpcResponses ==
    {NetFail, Malformed}
        \cup {Json(e, r) :
                 e \in {Undefined, ErrObj(RpcErrorMsg), ErrObj("Internal error")},
                 r \in {Undefined, Null, Num(7)}}

\* rpc up to its first await: one fetch is sent
rpcCall(method) ==
    /\ Len(calls) < MaxCalls
    /\ calls' = Append(calls, [fn |-> "rpc", arg |-> method, st |-> "awaiting",
                               sent |-> 1, resp |-> NoResponse,
                               out |-> Return(Undefined)])
    /\ UNCHANGED <<walletVars, tokenVars>>

\* an rpc that sends its request again when the server reports an error
rpcAnswerRetry(c, resp) ==
    /\ calls[c].st = "awaiting"
    /\ calls' = IF rpc(resp).kind = "throw"
                THEN [calls EXCEPT ![c].sent = @ + 1]
                ELSE [calls EXCEPT ![c].st = "settled", ![c].resp = resp,
                                   ![c].out = rpc(resp)]
    /\ calls[c].sent < 3
    /\ UNCHANGED <<walletVars, tokenVars>>

\* rpc from the answer to its fetch to its return or throw
rpcAnswer(c, resp) ==
    /\ calls[c].st = "awaiting"
    /\ calls' = [calls EXCEPT ![c].st = "settled", ![c].resp = resp,
                              ![c].out = rpc(resp)]
    /\ UNCHANGED <<walletVars, tokenVars>>

NextRpc ==
    \/ \E method \in Methods : rpcCall(method)
    \/ \E c \in DOMAIN calls : \E resp \in RpcResponses : rpcAnswer(c, resp)

SpecRpc == InitCalls /\ [][NextRpc]_vars

\* C6: every call of rpc has sent exactly one request, before and after it
\* is answered; answered with a parsed body it throws the message of the
\* body's error member when the body has one, and returns the body's result
\* member otherwise.
C6_Rpc ==
    \A c \in DOMAIN calls :
       /\ calls[c].sent = 1
       /\ (calls[c].st = "settled" /\ calls[c].resp.kind = "json") =>
             IF calls[c].resp.error /= Undefined
             THEN /\ calls[c].out.kind = "throw"
                  /\ calls[c].out.err = calls[c].resp.error.message
             ELSE /\ calls[c].out.kind = "return"
                  /\ calls[c].out.val = calls[c].resp.result

\* one call was answered with an error (and a result beside it), another
\* with a result only
C6_Witness ==
    /\ Len(calls) = 2
    /\ calls[1].st = "settled"
    /\ calls[1].resp = Json(ErrObj(RpcErrorMsg), Num(7))
    /\ calls[1].out = Throw(RpcErrorMsg)
    /\ calls[2].st = "settled"
    /\ calls[2].resp = Json(Undefined, Num(7))
    /\ calls[2].out = Return(Num(7))

(* timeAgo, src/App.tsx 70-76 *)
\* Date.now() in milliseconds.  Only its distance from ts matters to
\* timeAgo, so the clock runs from an origin that keeps every number
\* within 32 bits.
ClockMs == 180000000
Clocks == {ClockMs, ClockMs + 1, ClockMs + 999}

ElapsedTried ==
    (-1..MaxDense)
        \cup {89, 90, 119, 120, 3599, 3600, 3601, 7199, 7200,
              86399, 86400, 86401, 172799, 172800}

\* Math.floor(x / 1000) for an integer x
FloorDiv1000(x) == x \div 1000

\* a timeAgo whose buckets take their upper ends in
timeAgoInclusive(now, ts) ==
    LET sec == FloorDiv1000(now - 1000 * ts)
    IN  IF sec <= 60 THEN ToString(sec) \o "s ago"
        ELSE IF sec <= 3600 THEN ToString(sec \div 60) \o "m ago"
        ELSE IF sec <= 86400 THEN ToString(sec \div 3600) \o "h ago"
        ELSE ToString(sec \div 86400) \o "d ago"

\* timeAgo(ts) when Date.now() is now; ts is a whole number of seconds, so
\* Math.floor(now / 1000 - ts) is the floor of (now - 1000 ts) / 1000
timeAgo(now, ts) ==
    LET sec == FloorDiv1000(now - 1000 * ts)
    IN  IF sec < 60 THEN ToString(sec) \o "s ago"
        ELSE IF sec < 3600 THEN ToString(sec \div 60) \o "m ago"
        ELSE IF sec < 86400 THEN ToString(sec \div 3600) \o "h ago"
        ELSE ToString(sec \div 86400) \o "d ago"

\* a transaction row shows timeAgo(item.time) at clock now
showTime(now, ts) ==
    /\ calls = <<>>
    /\ calls' = <<[fn |-> "timeAgo", arg |-> [now |-> now, ts |-> ts],
                   out |-> timeAgo(now, ts)]>>
    /\ UNCHANGED <<walletVars, tokenVars>>

NextTimeAgo ==
    \E now \in Clocks : \E e \in ElapsedTried : showTime(now, (ClockMs \div 1000) - e)

SpecTimeAgo == InitCalls /\ [][NextTimeAgo]_vars

\* the whole seconds from ts to now: the e with e <= now/1000 - ts < e + 1
Elapsed(a) ==
    CHOOSE e \in -2..172801 :
       1000 * e <= a.now - 1000 * a.ts /\ a.now - 1000 * a.ts < 1000 * (e + 1)

\* the whole number of units of u seconds in e seconds, e >= 0
Units(e, u) == CHOOSE n \in 0..e : n * u <= e /\ e < (n + 1) * u

\* C8: with e the whole seconds elapsed, timeAgo gives "<e>s ago" below 60,
\* whole minutes up to 3600, whole hours up to 86400 and whole days from
\* there on, all rounded down; 30, 90, 7200 and 172800 seconds give
\* "30s ago", "1m ago", "2h ago" and "2d ago".
C8_TimeAgo ==
    \A c \in DOMAIN calls :
       LET e == Elapsed(calls[c].arg)
           got == calls[c].out
       IN  /\ e < 60 => got = ToString(e) \o "s ago"
           /\ (60 <= e /\ e < 3600) => got = ToString(Units(e, 60)) \o "m ago"
           /\ (3600 <= e /\ e < 86400) => got = ToString(Units(e, 3600)) \o "h ago"
           /\ 86400 <= e => got = ToString(Units(e, 86400)) \o "d ago"
           /\ e = 30 => got = "30s ago"
           /\ e = 90 => got = "1m ago"
           /\ e = 7200 => got = "2h ago"
           /\ e = 172800 => got = "2d ago"

\* a timestamp 3600 seconds and 999 milliseconds old shows as one hour
C8_Witness ==
    /\ calls /= <<>>
    /\ calls[1].arg = [now |-> ClockMs + 999, ts |-> (ClockMs \div 1000) - 3600]
    /\ calls[1].out = "1h ago"

====
